---- MODULE Spec2Model ----
(***************************************************************************)
(* Model of the baselayer orchestration engine: the configuration-driven   *)
(* adapter registry, the file matcher with its dynamic tool boundaries,    *)
(* and the Orchestrator's format / lint operations with their parallel     *)
(* fan-out over the registered tool adapters.                              *)
(***************************************************************************)
EXTENDS Naturals, Sequences, FiniteSets, TLC

(***************************************************************************)
(* Bounds of the model.                                                    *)
(***************************************************************************)
\* Longest file list a discovery returns.
MaxFiles == 2
\* Longest 'only' filter a caller passes.
MaxOnly == 1
\* Longest run of repeated reconfigure calls the history counts.
MaxRepeats == 2
\* Longest pattern list a caller passes.
MaxPatterns == 2

(***************************************************************************)
(* Sequence helpers.                                                       *)
(***************************************************************************)
Contains(s, x) == \E i \in 1..Len(s) : s[i] = x

RECURSIVE SumSeq(_)
SumSeq(s) == IF s = <<>> THEN 0 ELSE Head(s) + SumSeq(Tail(s))

\* All sequences over S of length at most n.
SeqsUpTo(S, n) == UNION {[1..k -> S] : k \in 0..n}

(***************************************************************************)
(* Configuration: the four feature flags the orchestration core reads.     *)
(* A flag is true, false or absent (features is optional, and so is every  *)
(* key at run time).                                                       *)
(***************************************************************************)
FlagValues == {"true", "false", "absent"}

Features == {"typescript", "json", "styles", "markdown"}

Configs == [Features -> FlagValues]

\* Orchestrator.currentConfig and AdapterRegistry.currentConfig before any
\* configuration has been applied.
NullConfig == [null |-> TRUE]

\* DEFAULT_CONFIG.features
DEFAULT_CONFIG ==
  [typescript |-> "true", json |-> "true", styles |-> "false", markdown |-> "true"]

\* mergeWithDefaults: the user's keys laid over the defaults.
MergeWithDefaults(userConfig) ==
  [f \in Features |->
     IF userConfig[f] = "absent" THEN DEFAULT_CONFIG[f] ELSE userConfig[f]]

\* config.features?.[feature] ?? false
IsFeatureEnabled(config, feature) == config[feature] = "true"

(***************************************************************************)
(* File types, extensions and the base handler map.                        *)
(***************************************************************************)
FileTypes == {"typescript", "json", "yaml", "css", "markdown"}

\* Key order of BASE_FILE_HANDLERS, which Object.entries follows.
FileTypeOrder == <<"typescript", "json", "yaml", "css", "markdown">>

BASE_FILE_HANDLERS ==
  [typescript |-> <<".ts", ".tsx", ".js", ".jsx">>,
   json       |-> <<".json">>,
   yaml       |-> <<".yaml", ".yml">>,
   css        |-> <<".css", ".scss", ".sass", ".less">>,
   markdown   |-> <<".md", ".mdx", ".mdc">>]

\* !config.features?.styles : true when the flag is false or absent.
Falsy(flag) == flag # "true"

\* A mutation of getFileHandlers that assigns through the shared base object
\* instead of a copy.
GetFileHandlersAliased(base, config) ==
  LET h1 == IF Falsy(config["styles"])
              THEN [base EXCEPT !["json"] = base["json"] \o base["css"],
                                !["css"] = <<>>]
              ELSE base
      h2 == IF Falsy(config["markdown"])
              THEN [h1 EXCEPT !["json"] = h1["json"] \o h1["markdown"],
                              !["markdown"] = <<>>]
              ELSE h1
  IN  [handlers |-> h2, base |-> h2]

\* A mutation of getFileHandlers that adds a disabled tool's extensions to
\* Prettier's entry without emptying the tool's own entry.
GetFileHandlersKeepSource(base, config) ==
  LET h1 == IF Falsy(config["styles"])
              THEN [base EXCEPT !["json"] = base["json"] \o base["css"]]
              ELSE base
      h2 == IF Falsy(config["markdown"])
              THEN [h1 EXCEPT !["json"] = h1["json"] \o h1["markdown"]]
              ELSE h1
  IN  [handlers |-> h2, base |-> base]

\* A mutation of getFileHandlers that works on the shared base object and
\* adds a disabled tool's extensions to Prettier's entry without emptying
\* the tool's own entry.
GetFileHandlersAccumulate(base, config) ==
  LET h1 == IF Falsy(config["styles"])
              THEN [base EXCEPT !["json"] = base["json"] \o base["css"]]
              ELSE base
      h2 == IF Falsy(config["markdown"])
              THEN [h1 EXCEPT !["json"] = h1["json"] \o h1["markdown"]]
              ELSE h1
  IN  [handlers |-> h2, base |-> h2]

\* getFileHandlers(config): copies the base map, then moves the extensions of
\* a disabled tool to Prettier's (json) entry.  Returns the new map together
\* with the base object as the call leaves it.
GetFileHandlers(base, config) ==
  LET h0 == base
      h1 == IF Falsy(config["styles"])
              THEN [h0 EXCEPT !["json"] = h0["json"] \o h0["css"],
                              !["css"] = <<>>]
              ELSE h0
      h2 == IF Falsy(config["markdown"])
              THEN [h1 EXCEPT !["json"] = h1["json"] \o h1["markdown"],
                              !["markdown"] = <<>>]
              ELSE h1
  IN  [handlers |-> h2, base |-> base]

(***************************************************************************)
(* Adapter registry.                                                       *)
(***************************************************************************)
NoAdapter == "none"

AdapterNames == {"ultracite", "prettier", "stylelint", "markdownlint-cli2"}

\* AdapterRegistry.configure: the adapters map after clear() and the
\* conditional registrations.
ConfigureAdapters(config) ==
  [t \in FileTypes |->
     CASE t = "typescript" -> IF config["typescript"] # "false"
                                THEN "ultracite" ELSE NoAdapter
       [] t = "json"       -> IF config["json"] # "false"
                                THEN "prettier" ELSE NoAdapter
       [] t = "css"        -> IF config["styles"] = "true"
                                THEN "stylelint" ELSE NoAdapter
       [] t = "markdown"   -> IF config["markdown"] = "true"
                                THEN "markdownlint-cli2" ELSE NoAdapter
       [] OTHER            -> NoAdapter]

(***************************************************************************)
(* Files.  A path is the sequence of its dot-separated parts:               *)
(* <<"style", "css">> is style.css, <<"src/app", "ts">> is src/app.ts.     *)
(* No directory name of the model holds a dot, so the parts after the      *)
(* first are those of the base name.                                       *)
(***************************************************************************)
FileUniverse ==
  << <<"app", "ts">>, <<"data", "json">>, <<"ci", "yaml">>,
     <<"style", "css">>, <<"readme", "md">>, <<"notes", "txt">> >>

\* node:path extname: from the last dot of the base name to its end; empty
\* when there is no dot or the only dot leads the name.
ExtName(file) ==
  IF Len(file) < 2 \/ (Len(file) = 2 /\ file[1] = "")
    THEN ""
    ELSE "." \o file[Len(file)]

\* The file lists a discovery can return: findFiles removes duplicates, and
\* the files come in the order of the universe.
FileLists ==
  {s \in SeqsUpTo(1..Len(FileUniverse), MaxFiles) :
     \A i \in 1..Len(s) - 1 : s[i] < s[i + 1]}

PathsOf(s) == [i \in 1..Len(s) |-> FileUniverse[s[i]]]

(***************************************************************************)
(* FileMatcher.categorizeFiles                                             *)
(***************************************************************************)
EmptyCategorized == [t \in FileTypes |-> <<>>]

\* The types, in Object.entries order, whose extension list includes ext.
MatchingTypes(handlers, ext) ==
  SelectSeq(FileTypeOrder, LAMBDA t : Contains(handlers[t], ext))

\* The inner loop of categorizeFiles: the first matching type, then break.
FirstMatch(handlers, ext) ==
  LET m == MatchingTypes(handlers, ext)
  IN  IF m = <<>> THEN <<>> ELSE <<Head(m)>>

\* The loop of categorizeFiles over the files, in order.
RECURSIVE CategorizeLoop(_, _)
CategorizeLoop(handlers, files) ==
  IF files = <<>>
    THEN EmptyCategorized
    ELSE LET n    == Len(files)
             rest == CategorizeLoop(handlers, SubSeq(files, 1, n - 1))
             hit  == FirstMatch(handlers, ExtName(files[n]))
         IN  IF hit = <<>>
               THEN rest
               ELSE [rest EXCEPT ![hit[1]] = Append(@, files[n])]

\* A mutation of categorizeFiles that classifies against the base map, as a
\* matcher whose handlers were never updated would.
CategorizeFilesStale(handlers, files) == CategorizeLoop(BASE_FILE_HANDLERS, files)

\* categorizeFiles(files) against the matcher's current handler map.
CategorizeFiles(handlers, files) == CategorizeLoop(handlers, files)

(***************************************************************************)
(* Tool adapters.                                                          *)
(***************************************************************************)
\* The readonly extensions of each adapter class.
AdapterExtensions ==
  [a \in AdapterNames |->
     CASE a = "ultracite"         -> <<".ts", ".tsx", ".js", ".jsx">>
       [] a = "prettier"          -> <<".json", ".yaml", ".yml">>
       [] a = "stylelint"         -> <<".css", ".scss", ".sass", ".less">>
       [] a = "markdownlint-cli2" -> <<".md", ".mdx", ".mdc">>]

\* BaseAdapter.canHandle
CanHandle(adapter, file) == Contains(AdapterExtensions[adapter], ExtName(file))

\* BaseAdapter.filterFiles
FilterFiles(adapter, files) ==
  SelectSeq(files, LAMBDA f : CanHandle(adapter, f))

\* What the external command of one invocation can do: exit with a code
\* (with or without text on stderr), run past the timeout, or fail to start.
\* "no_files" is a run whose output says 'No files'.
CommandOutcomes ==
  {"exit0", "exit1", "exit1_stderr", "exit2_stderr", "timeout", "spawn_error",
   "no_files"}

\* BaseAdapter.executeCommand: the ToolResult it resolves with.
ExecuteCommand(adapter, outcome) ==
  CASE outcome = "exit0" ->
         [success |-> TRUE, errors |-> <<>>, exitCode |-> 0,
          filesProcessed |-> 0, tool |-> adapter]
    [] outcome = "no_files" ->
         [success |-> FALSE, errors |-> << <<"No files matching the pattern">> >>,
          exitCode |-> 2, filesProcessed |-> 0, tool |-> adapter]
    [] outcome = "exit1" ->
         [success |-> FALSE, errors |-> <<>>, exitCode |-> 1,
          filesProcessed |-> 0, tool |-> adapter]
    [] outcome = "exit1_stderr" ->
         [success |-> FALSE, errors |-> << <<"stderr">> >>, exitCode |-> 1,
          filesProcessed |-> 0, tool |-> adapter]
    [] outcome = "exit2_stderr" ->
         [success |-> FALSE, errors |-> << <<"stderr">> >>, exitCode |-> 2,
          filesProcessed |-> 0, tool |-> adapter]
    [] outcome = "timeout" ->
         [success |-> FALSE, errors |-> << <<"Command timed out after ", "30000", "ms">> >>,
          exitCode |-> 1, filesProcessed |-> 0, tool |-> adapter]
    [] outcome = "spawn_error" ->
         [success |-> FALSE, errors |-> << <<"Failed to start ", "bunx", ": ", "ENOENT">> >>,
          exitCode |-> 1, filesProcessed |-> 0, tool |-> adapter]

\* The result an adapter returns when filterFiles leaves nothing.
NothingToDo(adapter) ==
  [success |-> TRUE, errors |-> <<>>, exitCode |-> 0,
   filesProcessed |-> 0, tool |-> adapter]

\* A mutation of StylelintAdapter in which lint, like format, counts exit
\* code 2 as success.
AdapterInvokePartialLint(adapter, kind, files, outcome) ==
  LET filteredFiles == FilterFiles(adapter, files)
      result        == ExecuteCommand(adapter, outcome)
  IN  IF filteredFiles = <<>>
        THEN NothingToDo(adapter)
        ELSE IF adapter = "stylelint"
          THEN [result EXCEPT !.success = (result.exitCode = 0 \/ result.exitCode = 2),
                              !.filesProcessed = Len(filteredFiles)]
        ELSE [result EXCEPT !.filesProcessed = Len(filteredFiles)]

\* adapter.format(files) / adapter.lint(files) of the four adapter classes,
\* for an invocation that returns (does not throw).
AdapterInvoke(adapter, kind, files, outcome) ==
  LET filteredFiles == FilterFiles(adapter, files)
      result        == ExecuteCommand(adapter, outcome)
  IN  IF filteredFiles = <<>>
        THEN NothingToDo(adapter)
        ELSE IF adapter = "stylelint" /\ kind = "format"
          THEN [result EXCEPT !.success = (result.exitCode = 0 \/ result.exitCode = 2),
                              !.filesProcessed = Len(filteredFiles)]
        ELSE IF adapter = "stylelint" /\ kind = "lint" /\ outcome = "no_files"
          THEN NothingToDo(adapter)
        ELSE [result EXCEPT !.filesProcessed = Len(filteredFiles)]

(***************************************************************************)
(* Orchestrator: results and tasks.                                        *)
(***************************************************************************)
\* The catch block of executeToolFormat / executeToolLint: the failed
\* ToolResult that stands for an adapter that threw.
CaughtResult(adapter, kind, files, message) ==
  [success |-> FALSE,
   errors |-> << <<adapter, " " \o kind \o " failed: ", message>> >>,
   exitCode |-> 1,
   filesProcessed |-> Len(files),
   tool |-> adapter]

\* The outcomes one adapter invocation can have.  An adapter left with no
\* file after filterFiles returns at once, without running a command.
InvocationOutcomes(adapter, kind, files) ==
  IF adapter = NoAdapter \/ FilterFiles(adapter, files) = <<>>
    THEN {"none"}
    ELSE (CommandOutcomes \ (IF adapter = "stylelint" THEN {} ELSE {"no_files"}))
           \cup {"throw"}

\* What executeToolFormat / executeToolLint return without an adapter.
NullResult == [null |-> TRUE]

\* A mutation of executeToolFormat / executeToolLint whose catch block
\* swallows the exception and returns null.
ExecuteToolSwallow(adapter, kind, files, outcome) ==
  IF adapter = NoAdapter \/ outcome = "throw"
    THEN NullResult
    ELSE AdapterInvoke(adapter, kind, files, outcome)

\* executeToolFormat / executeToolLint: the value one task resolves with.
ExecuteTool(adapter, kind, files, outcome) ==
  IF adapter = NoAdapter
    THEN NullResult
  ELSE IF outcome = "throw"
    THEN CaughtResult(adapter, kind, files, "boom")
    ELSE AdapterInvoke(adapter, kind, files, outcome)

\* The value slot of a task that has not settled.
Pending == [pending |-> TRUE]

\* A mutation of the selection that walks the categories in their own order
\* and keeps those the filter names.
SelectedTypesInKeyOrder(only) ==
  IF only.given
    THEN SelectSeq(FileTypeOrder, LAMBDA t : Contains(only.types, t))
    ELSE FileTypeOrder

\* options.only ? options.only : Object.keys(categorized)
SelectedTypes(only) == IF only.given THEN only.types ELSE FileTypeOrder

\* The names a caller puts in an 'only' filter: a file type, and the CLI's
\* short name for TypeScript, which is no file type.
OnlyNames == {"json", "ts"}

\* The 'only' option of a call: absent, or a list of names.
OnlyOptions ==
  {[given |-> FALSE, types |-> <<>>]}
    \cup {[given |-> TRUE, types |-> t] : t \in SeqsUpTo(OnlyNames, MaxOnly)}

\* The early return of format / lint when discovery finds no file.
NoFilesResult ==
  [kind |-> "aggregate", success |-> TRUE, results |-> <<>>,
   totalFiles |-> 0, totalErrors |-> 0]

\* A mutation of the aggregation that counts failed results, not error strings.
AggregateCountFailures(allResults) ==
  [kind |-> "aggregate",
   success |-> \A i \in 1..Len(allResults) : allResults[i].success,
   results |-> allResults,
   totalFiles |-> SumSeq([i \in 1..Len(allResults) |-> allResults[i].filesProcessed]),
   totalErrors |-> Cardinality({i \in 1..Len(allResults) : ~allResults[i].success})]

\* A mutation of the aggregation that reports a run without results as failed.
AggregateNonEmpty(allResults) ==
  [kind |-> "aggregate",
   success |-> /\ allResults # <<>>
               /\ \A i \in 1..Len(allResults) : allResults[i].success,
   results |-> allResults,
   totalFiles |-> SumSeq([i \in 1..Len(allResults) |-> allResults[i].filesProcessed]),
   totalErrors |-> SumSeq([i \in 1..Len(allResults) |-> Len(allResults[i].errors)])]

\* The totals and success flag format / lint compute from the collected results.
Aggregate(allResults) ==
  [kind |-> "aggregate",
   success |-> \A i \in 1..Len(allResults) : allResults[i].success,
   results |-> allResults,
   totalFiles |-> SumSeq([i \in 1..Len(allResults) |-> allResults[i].filesProcessed]),
   totalErrors |-> SumSeq([i \in 1..Len(allResults) |-> Len(allResults[i].errors)])]

Failure(code) == [kind |-> "failure", code |-> code]

NoResult == [kind |-> "none"]

\* CommandOptions.fix, staged and dryRun as a caller gives them: each is
\* true, false or absent.
DefaultOptions == [fix |-> "absent", staged |-> "absent", dryRun |-> "absent"]

\* flag ?? fallback
OrElse(flag, fallback) == IF flag = "absent" THEN fallback ELSE flag

\* The options object executeToolFormat / executeToolLint hand to the adapter.
ToolOptions(kind, options) ==
  IF kind = "format"
    THEN [fix      |-> OrElse(options.fix, "true"),
          staged   |-> options.staged,
          dryRun   |-> options.dryRun]
    ELSE [fix       |-> OrElse(options.fix, "false"),
          staged    |-> options.staged,
          checkOnly |-> IF Falsy(options.fix) THEN "true" ELSE "false"]

\* The arguments the adapter's format / lint puts after the tool's name,
\* before the files or the glob.
AdapterArgs(adapter, kind, toolOptions) ==
  IF kind = "format"
    THEN CASE adapter = "ultracite" ->
                IF toolOptions.dryRun = "true"
                  THEN <<"format", "--check">> ELSE <<"format">>
           [] adapter = "prettier" ->
                IF toolOptions.dryRun = "true" THEN <<"--check">> ELSE <<"--write">>
           [] OTHER ->
                IF toolOptions.dryRun # "true" THEN <<"--fix">> ELSE <<>>
    ELSE CASE adapter = "ultracite" ->
                IF toolOptions.fix = "true" /\ toolOptions.checkOnly # "true"
                  THEN <<"format">> ELSE <<"lint">>
           [] adapter = "prettier" ->
                IF toolOptions.fix = "true" THEN <<"--write">> ELSE <<"--check">>
           [] OTHER ->
                IF toolOptions.fix = "true" THEN <<"--fix">> ELSE <<>>

\* No call in progress.  Of a call in progress: the method the caller
\* entered (entry), the operation that runs (kind), the caller's options
\* (only, given), the options the running operation got (options), whether
\* the call loaded the configuration itself (loaded), whether discovery
\* returned (discovered) and the files it returned, and whether an exception
\* reached the catch block of format / lint (threw).
NoOp == [kind |-> "none", only |-> [given |-> FALSE, types |-> <<>>],
         discovered |-> FALSE, files |-> <<>>,
         entry |-> "none", given |-> DefaultOptions,
         options |-> DefaultOptions, loaded |-> FALSE, threw |-> FALSE]

\* A call of the public method entry that runs the operation kind.
Operation(entry, kind, only, given, options) ==
  [NoOp EXCEPT !.entry = entry, !.kind = kind, !.only = only,
               !.given = given, !.options = options]

VARIABLES
  currentConfig,   \* Orchestrator.currentConfig
  regConfig,       \* AdapterRegistry.currentConfig
  adapters,        \* AdapterRegistry.adapters: file type -> adapter name
  fileHandlers,    \* FileMatcher.fileHandlers
  baseHandlers,    \* the module-level BASE_FILE_HANDLERS object
  pc,              \* "idle", "discovering" (at the staged-files query),
                   \* "awaiting" (at Promise.all) or "done"
  op,              \* the operation in progress and its inputs
  categorized,     \* the categorizeFiles result of the operation
  tasks,           \* the adapter invocations of the operation
  result,          \* what the operation returned
  repeats          \* history: how many reconfigure calls in a row, up to
                   \* this state, were given the configuration now current

vars == <<currentConfig, regConfig, adapters, fileHandlers, baseHandlers,
          pc, op, categorized, tasks, result, repeats>>

configVars == <<currentConfig, regConfig, adapters, fileHandlers, baseHandlers>>

opVars == <<pc, op, categorized, tasks, result>>

\* A mutation of the filter chain without the categorized[type].length test.
QualifyingTypesNoLengthTest(registry, cat, only) ==
  SelectSeq(SelectedTypes(only),
            LAMBDA t : t \in FileTypes /\ registry[t] # NoAdapter)

\* The filter chain of format / lint: the selected types that have an
\* adapter and at least one file.
QualifyingTypes(registry, cat, only) ==
  SelectSeq(
    SelectSeq(SelectedTypes(only),
              LAMBDA t : t \in FileTypes /\ registry[t] # NoAdapter),
    LAMBDA t : Len(cat[t]) > 0)

\* .map((type) => this.executeToolFormat(type, categorized[type], options)):
\* every invocation is started here, before Promise.all.  An invocation
\* records the options its adapter receives and the arguments the adapter
\* derives from them; killed is true from the timer's SIGTERM until the
\* killed process closes.
StartTasks(registry, cat, only, kind, options) ==
  LET types == QualifyingTypes(registry, cat, only)
  IN  [i \in 1..Len(types) |->
         [type |-> types[i], files |-> cat[types[i]],
          adapter |-> registry[types[i]], status |-> "running",
          outcome |-> "", result |-> Pending,
          options |-> ToolOptions(kind, options),
          args |-> AdapterArgs(registry[types[i]], kind,
                               ToolOptions(kind, options)),
          killed |-> FALSE]]

\* A mutation of the join that resolves with the first settled task, as
\* Promise.race would.
AnySettled(ts) == ts = <<>> \/ \E i \in 1..Len(ts) : ts[i].status = "done"

\* Promise.all(tasks) resolves: every task has settled.
AllSettled(ts) == \A i \in 1..Len(ts) : ts[i].status = "done"

\* results.filter((result) => result !== null) over the settled values.
CollectedResults(ts) ==
  LET settled == SelectSeq(ts, LAMBDA t : t.status = "done")
      values  == [i \in 1..Len(settled) |-> settled[i].result]
  IN  SelectSeq(values, LAMBDA r : r # NullResult)

\* A mutation of the promise in which a later resolve replaces the value.
SettleLastWins(current, value) == value

\* resolve(value) on the promise of executeCommand: the first call settles
\* the promise, a later call changes nothing.
Settle(current, value) == IF current = Pending THEN value ELSE current

Init ==
  /\ currentConfig = NullConfig
  /\ regConfig = NullConfig
  /\ adapters = [t \in FileTypes |-> NoAdapter]
  /\ fileHandlers = BASE_FILE_HANDLERS
  /\ baseHandlers = BASE_FILE_HANDLERS
  /\ pc = "idle"
  /\ op = NoOp
  /\ categorized = EmptyCategorized
  /\ tasks = <<>>
  /\ result = NoResult
  /\ repeats = 0

\* A mutation of the shared assignments that configures the registry and
\* leaves the matcher's handlers as they are.
ApplyConfigRegistryOnly(config) ==
  /\ currentConfig' = config
  /\ regConfig' = config
  /\ adapters' = ConfigureAdapters(config)
  /\ UNCHANGED <<fileHandlers, baseHandlers>>

\* The three assignments initialize and reconfigure share.
ApplyConfig(config) ==
  LET r == GetFileHandlers(baseHandlers, config)
  IN  /\ currentConfig' = config
      /\ regConfig' = config
      /\ adapters' = ConfigureAdapters(config)
      /\ fileHandlers' = r.handlers
      /\ baseHandlers' = r.base

\* What ConfigLoader.loadConfig can return: CONFIG_INVALID, the defaults
\* (no file found), or the found file's configuration merged with the defaults.
LoadOutcomes ==
  {[ok |-> FALSE, config |-> NullConfig]}
    \cup {[ok |-> TRUE, config |-> MergeWithDefaults(c)] : c \in Configs}

\* Orchestrator.reconfigure(config) with a given configuration.
ReconfigureWith(config) ==
  /\ pc = "idle"
  /\ ApplyConfig(config)
  /\ repeats' = IF repeats >= 1 /\ config = currentConfig
                  THEN (IF repeats < MaxRepeats THEN repeats + 1 ELSE repeats)
                  ELSE 1
  /\ UNCHANGED opVars

\* Orchestrator.reconfigure(config), over every setting of the feature flags.
Reconfigure == \E config \in Configs : ReconfigureWith(config)

\* A mutation of initialize that falls back to the defaults when the
\* configuration cannot be loaded.
ApplyLoadOrDefaults(load) ==
  ApplyConfig(IF load.ok THEN load.config ELSE DEFAULT_CONFIG)

\* initialize after loadConfig returned: a failure leaves the orchestrator
\* as it is, a configuration is applied.
ApplyLoad(load) ==
  IF load.ok THEN ApplyConfig(load.config) ELSE UNCHANGED configVars

\* Orchestrator.initialize(cwd), called by the user.
Initialize ==
  /\ pc = "idle"
  /\ \E load \in LoadOutcomes :
       /\ ApplyLoad(load)
       /\ result' = IF load.ok THEN [kind |-> "void"]
                               ELSE Failure("CONFIG_INVALID")
  /\ pc' = "done"
  /\ op' = [NoOp EXCEPT !.kind = "initialize", !.entry = "initialize",
                        !.loaded = TRUE]
  /\ repeats' = 0
  /\ UNCHANGED <<categorized, tasks>>

\* What findFiles can do when nothing is assumed about the patterns and the
\* working tree: throw, or return a list of files.
AnyDiscovery ==
  {[threw |-> TRUE, files |-> <<>>]}
    \cup {[threw |-> FALSE, files |-> PathsOf(s)] : s \in FileLists}

\* A mutation of the catch block of format / lint that reports the error
\* under the code of a configuration failure.
WrapErrorAsConfigInvalid(kind) == Failure("CONFIG_INVALID")

\* The catch block of format / lint: the failure Result that wraps an
\* exception thrown inside the try block.
WrapError(kind) == Failure("INTERNAL_ERROR")

\* A mutation of categorizeFiles that ignores its configuration argument
\* and classifies against the base map.
RecacheHandlersBase(base, config) == [handlers |-> base, base |-> base]

\* A mutation of categorizeFiles that resolves the map of the default
\* configuration instead of the one it is given.
RecacheHandlersDefaults(base, config) == GetFileHandlers(base, DEFAULT_CONFIG)

\* categorizeFiles(files, config): if (config) this.updateHandlers(config).
RecacheHandlers(base, config) == GetFileHandlers(base, config)

\* The body of format / lint once initialization is ensured: discovery,
\* categorization and the start of every task.  cfg, registry, handlers and
\* base are the orchestrator's configuration, adapter map, handler map and
\* base map at that point; discoveries are the outcomes findFiles can have.
Discover(o, cfg, registry, handlers, base, discoveries) ==
  \E found \in discoveries :
    IF found.threw
      THEN /\ fileHandlers' = handlers
           /\ baseHandlers' = base
           /\ op' = [o EXCEPT !.discovered = FALSE, !.files = <<>>,
                               !.threw = TRUE]
           /\ pc' = "done"
           /\ result' = WrapError(o.kind)
           /\ categorized' = EmptyCategorized
           /\ tasks' = <<>>
    ELSE IF found.files = <<>>
      THEN /\ fileHandlers' = handlers
           /\ baseHandlers' = base
           /\ op' = [o EXCEPT !.discovered = TRUE, !.files = <<>>]
           /\ pc' = "done"
           /\ result' = NoFilesResult
           /\ categorized' = EmptyCategorized
           /\ tasks' = <<>>
    ELSE LET r   == RecacheHandlers(base, cfg)
             cat == CategorizeFiles(r.handlers, found.files)
         IN  /\ fileHandlers' = r.handlers
             /\ baseHandlers' = r.base
             /\ op' = [o EXCEPT !.discovered = TRUE, !.files = found.files]
             /\ categorized' = cat
             /\ tasks' = StartTasks(registry, cat, o.only, o.kind, o.options)
             /\ pc' = "awaiting"
             /\ result' = NoResult

\* What promisify(spawn)('git', [...], {...}) does in getStagedFiles.  spawn
\* takes no callback, so the one promisify appends is never called:
\* "pending" - spawn returned a child process (whether git then lists the
\* staged files, writes to stderr, or cannot be started) and the promise
\* never settles; "threw" - spawn threw at once and the promise is rejected.
SpawnOutcomes == {"pending", "threw"}

\* format / lint reach await execFile(...) in getStagedFiles: the call is
\* suspended there.
AwaitStagedFiles(o, handlers, base) ==
  \E git \in SpawnOutcomes :
    /\ op' = [git |-> git] @@ o
    /\ pc' = "discovering"
    /\ fileHandlers' = handlers
    /\ baseHandlers' = base
    /\ UNCHANGED <<categorized, tasks, result>>

\* format / lint from findFiles on: with options.staged the call waits for
\* the staged-files query, otherwise discovery returns or throws at once.
FindAndRun(o, cfg, registry, handlers, base, discoveries) ==
  IF o.options.staged = "true"
    THEN AwaitStagedFiles(o, handlers, base)
    ELSE Discover(o, cfg, registry, handlers, base, discoveries)

\* A mutation of the test at the head of format / lint that initializes on
\* every call.
NeedsInitializeAlways(config) == TRUE

\* !this.currentConfig
NeedsInitialize(config) == config = NullConfig

\* The head of format / lint: without a configuration the operation first
\* runs initialize itself and returns its failure; then the operation
\* continues with the orchestrator's configuration, adapter map, handler
\* map and base map.
EnsureInitialized(o, discoveries) ==
  IF ~NeedsInitialize(currentConfig)
    THEN /\ FindAndRun([o EXCEPT !.loaded = FALSE], currentConfig, adapters,
                       fileHandlers, baseHandlers, discoveries)
         /\ UNCHANGED <<currentConfig, regConfig, adapters>>
    ELSE \E load \in LoadOutcomes :
           IF load.ok
             THEN LET r == GetFileHandlers(baseHandlers, load.config)
                  IN  /\ currentConfig' = load.config
                      /\ regConfig' = load.config
                      /\ adapters' = ConfigureAdapters(load.config)
                      /\ FindAndRun([o EXCEPT !.loaded = TRUE], load.config,
                                    ConfigureAdapters(load.config),
                                    r.handlers, r.base, discoveries)
             ELSE /\ UNCHANGED configVars
                  /\ op' = [o EXCEPT !.loaded = TRUE]
                  /\ pc' = "done"
                  /\ result' = Failure("CONFIG_INVALID")
                  /\ UNCHANGED <<categorized, tasks>>

\* A call of format, lint or check up to Promise.all (or to its early
\* return): entry is the method called, kind the operation that runs, given
\* the caller's options, options those the operation runs with, and
\* discoveries the outcomes findFiles can have.
StartCall(entry, kind, only, given, options, discoveries) ==
  /\ pc = "idle"
  /\ repeats' = 0
  /\ EnsureInitialized(Operation(entry, kind, only, given, options),
                       discoveries)

\* The same for a call whose patterns are known: the call records them.
StartCallOn(patterns, entry, kind, only, given, options, discoveries) ==
  /\ pc = "idle"
  /\ repeats' = 0
  /\ EnsureInitialized(
       [patterns |-> patterns] @@ Operation(entry, kind, only, given, options),
       discoveries)

\* Orchestrator.format / Orchestrator.lint, for any patterns and working
\* tree and the default fix, staged and dryRun.
StartOp(kind) ==
  \E only \in OnlyOptions :
    StartCall(kind, kind, only, DefaultOptions, DefaultOptions, AnyDiscovery)

Format == StartOp("format")

Lint == StartOp("lint")

\* A mutation of check that hands the caller's options to lint as they are.
CheckOptionsAsGiven(options) == options

\* { ...options, fix: false }
CheckOptions(options) == [options EXCEPT !.fix = "false"]

\* Orchestrator.check with the caller's options: lint with fix disabled.
CheckCall(only, given) ==
  StartCall("check", "lint", only, given, CheckOptions(given), AnyDiscovery)

\* Orchestrator.check, for any patterns and working tree and the default
\* fix, staged and dryRun.
Check == \E only \in OnlyOptions : CheckCall(only, DefaultOptions)

\* One adapter invocation settles.  A command that ran past its timeout has
\* been sent SIGTERM and has not closed yet.
TaskSettles ==
  /\ pc = "awaiting"
  /\ \E i \in 1..Len(tasks) :
       /\ tasks[i].status = "running"
       /\ \E outcome \in InvocationOutcomes(tasks[i].adapter, op.kind, tasks[i].files) :
            tasks' = [tasks EXCEPT
                        ![i].status = "done",
                        ![i].outcome = outcome,
                        ![i].killed = (outcome = "timeout"),
                        ![i].result = Settle(tasks[i].result,
                                             ExecuteTool(tasks[i].adapter, op.kind,
                                                         tasks[i].files, outcome))]
  /\ UNCHANGED <<configVars, pc, op, categorized, result, repeats>>

\* Promise.all resolves and the operation returns its aggregate.
Join ==
  /\ pc = "awaiting"
  /\ AllSettled(tasks)
  /\ result' = Aggregate(CollectedResults(tasks))
  /\ pc' = "done"
  /\ UNCHANGED <<configVars, op, categorized, tasks, repeats>>

\* The caller takes the result; the orchestrator is ready for the next call.
Return ==
  /\ pc = "done"
  /\ pc' = "idle"
  /\ op' = NoOp
  /\ categorized' = EmptyCategorized
  /\ tasks' = <<>>
  /\ result' = NoResult
  /\ UNCHANGED <<configVars, repeats>>

Next ==
  \/ Reconfigure
  \/ Initialize
  \/ Format
  \/ Lint
  \/ Check
  \/ TaskSettles
  \/ Join
  \/ Return

Spec == Init /\ [][Next]_vars

\* The configuration operations alone: initialize and reconfigure calls with
\* no format or lint between them.
NextConfig ==
  \/ Reconfigure
  \/ Initialize
  \/ Return

SpecConfig == Init /\ [][NextConfig]_vars

(***************************************************************************)
(* ConfigLoader.loadConfig over the candidate files of a directory.        *)
(***************************************************************************)
\* configPaths, in the order of the loop.
ConfigPaths ==
  <<"baselayer.jsonc", "baselayer.json", ".baselayerrc.jsonc",
    ".baselayerrc.json", "outfitter.config.js", "outfitter.config.mjs">>

\* configPath.endsWith('.json') || configPath.endsWith('.jsonc')
IsJsonPath(path) ==
  path \in {"baselayer.jsonc", "baselayer.json", ".baselayerrc.jsonc",
            ".baselayerrc.json"}

\* The contents of the valid candidate files: an empty object, and an
\* object whose features set styles and markdown.
UserConfigs ==
  {[f \in Features |-> "absent"],
   [f \in Features |->
      CASE f = "styles" -> "true" [] f = "markdown" -> "false" [] OTHER -> "absent"]}

\* What a candidate path can be in the directory.  "missing": readFileSync
\* throws ENOENT.  "invalid": the file exists and reading, parsing, importing
\* or validating it throws an error whose code is not ENOENT.  "valid": the
\* file holds a configuration.  "import_enoent", for a module only: the file
\* exists and its evaluation throws an error whose code is ENOENT, as a
\* module that reads a missing file does.
CandidateStates(path) ==
  {[state |-> "missing", config |-> NullConfig],
   [state |-> "invalid", config |-> NullConfig]}
    \cup {[state |-> "valid", config |-> c] : c \in UserConfigs}
    \cup (IF IsJsonPath(path)
            THEN {}
            ELSE {[state |-> "import_enoent", config |-> NullConfig]})

\* The directories initialize can be pointed at.
Directories ==
  {dir \in [1..Len(ConfigPaths) -> UNION {CandidateStates(ConfigPaths[i]) :
                                             i \in 1..Len(ConfigPaths)}] :
     \A i \in 1..Len(ConfigPaths) : dir[i] \in CandidateStates(ConfigPaths[i])}

\* The code of the error the try block throws for a candidate; "none" when
\* it reaches return success(mergedConfig).
ThrownCode(candidate) ==
  CASE candidate.state = "missing"       -> "ENOENT"
    [] candidate.state = "import_enoent" -> "ENOENT"
    [] candidate.state = "invalid"       -> "other"
    [] candidate.state = "valid"         -> "none"

\* The for loop of loadConfig from candidate i on.  source names the
\* candidate the result comes from (the failure message names it), or
\* "defaults".
RECURSIVE LoadFrom(_, _)
LoadFrom(dir, i) ==
  IF i > Len(ConfigPaths)
    THEN [ok |-> TRUE, config |-> DEFAULT_CONFIG, source |-> "defaults"]
  ELSE IF ThrownCode(dir[i]) = "ENOENT"
    THEN LoadFrom(dir, i + 1)
  ELSE IF ThrownCode(dir[i]) # "none"
    THEN [ok |-> FALSE, config |-> NullConfig, source |-> ConfigPaths[i]]
    ELSE [ok |-> TRUE, config |-> MergeWithDefaults(dir[i].config),
          source |-> ConfigPaths[i]]

\* ConfigLoader.loadConfig(cwd)
LoadConfig(dir) == LoadFrom(dir, 1)

\* Orchestrator.initialize(cwd) in a directory whose candidate files are
\* known: the call records the directory and the candidate that decided.
InitializeCwd ==
  /\ pc = "idle"
  /\ \E dir \in Directories :
       LET load == LoadConfig(dir)
       IN  /\ ApplyLoad(load)
           /\ result' = IF load.ok THEN [kind |-> "void"]
                                   ELSE Failure("CONFIG_INVALID")
           /\ op' = [cwd |-> dir, source |-> load.source]
                      @@ [NoOp EXCEPT !.kind = "initialize",
                                      !.entry = "initialize",
                                      !.loaded = TRUE]
  /\ pc' = "done"
  /\ repeats' = 0
  /\ UNCHANGED <<categorized, tasks>>

\* initialize calls alone, over every directory.
NextLoad ==
  \/ InitializeCwd
  \/ Return

SpecLoad == Init /\ [][NextLoad]_vars

(***************************************************************************)
(* FileMatcher.findFiles over a working tree (glob mode).                  *)
(***************************************************************************)
\* The working tree of the glob runs: every file with the top-level
\* directory it lies under.
WorkingTree ==
  << [dir |-> "src",          path |-> <<"src/app", "ts">>],
     [dir |-> "src",          path |-> <<"src/data", "json">>],
     [dir |-> "src",          path |-> <<"src/vendor", "min", "js">>],
     [dir |-> "node_modules", path |-> <<"node_modules/dep/index", "js">>],
     [dir |-> "dist",         path |-> <<"dist/bundle", "js">>],
     [dir |-> "legacy",       path |-> <<"legacy/old", "ts">>] >>

\* defaultIgnore of findFiles, before ...ignore.
DefaultIgnore ==
  <<"node_modules/**", "dist/**", "build/**", ".git/**", "coverage/**",
    "**/*.min.js", "**/*.min.css">>

\* The patterns a caller passes to format or lint.
Patterns == {"**/*.ts", "src/**", "**/*"}

PatternLists == SeqsUpTo(Patterns, MaxPatterns)

\* Whether a glob pattern of the model matches a file of the working tree.
GlobMatches(pattern, entry) ==
  LET n == Len(entry.path)
  IN  CASE pattern = "**/*"            -> TRUE
        [] pattern = "**/*.ts"         -> ExtName(entry.path) = ".ts"
        [] pattern = "src/**"          -> entry.dir = "src"
        [] pattern = "legacy/**"       -> entry.dir = "legacy"
        [] pattern = "node_modules/**" -> entry.dir = "node_modules"
        [] pattern = "dist/**"         -> entry.dir = "dist"
        [] pattern = "build/**"        -> entry.dir = "build"
        [] pattern = ".git/**"         -> entry.dir = ".git"
        [] pattern = "coverage/**"     -> entry.dir = "coverage"
        [] pattern = "**/*.min.js"     ->
             n >= 3 /\ entry.path[n - 1] = "min" /\ entry.path[n] = "js"
        [] pattern = "**/*.min.css"    ->
             n >= 3 /\ entry.path[n - 1] = "min" /\ entry.path[n] = "css"
        [] OTHER                       -> FALSE

\* Whether some pattern of the list matches the file.
MatchesAny(patternList, entry) ==
  \E k \in 1..Len(patternList) : GlobMatches(patternList[k], entry)

\* glob(pattern, { ignore }): the files of the tree the pattern matches and
\* no ignore pattern does, in the order of the tree.
Glob(pattern, ignoreList, tree) ==
  LET hits == SelectSeq(tree, LAMBDA e : /\ GlobMatches(pattern, e)
                                         /\ ~MatchesAny(ignoreList, e))
  IN  [i \in 1..Len(hits) |-> hits[i].path]

\* The loop of findFiles: allFiles.push(...files) for each pattern in turn.
RECURSIVE GlobAll(_, _, _)
GlobAll(patterns, ignoreList, tree) ==
  IF patterns = <<>>
    THEN <<>>
    ELSE GlobAll(SubSeq(patterns, 1, Len(patterns) - 1), ignoreList, tree)
           \o Glob(patterns[Len(patterns)], ignoreList, tree)

\* [...new Set(allFiles)]: every element once, at its first position.
RECURSIVE Unique(_)
Unique(s) ==
  IF s = <<>>
    THEN <<>>
    ELSE LET front == Unique(SubSeq(s, 1, Len(s) - 1))
         IN  IF Contains(front, s[Len(s)]) THEN front
                                           ELSE Append(front, s[Len(s)])

\* findFiles(patterns, { ignore }) without onlyStaged.
FindFiles(patterns, ignore, tree) ==
  Unique(GlobAll(patterns, DefaultIgnore \o ignore, tree))

\* The ignore lists a configuration file or a reconfigure call can carry.
IgnoreLists == {<<>>, <<"legacy/**">>}

\* Configurations with the default feature flags and an ignore list.
IgnoreConfigs == {[ignore |-> ig] @@ DEFAULT_CONFIG : ig \in IgnoreLists}

\* Orchestrator.reconfigure(config) with a configuration that carries an
\* ignore list.
ReconfigureIgnore == \E config \in IgnoreConfigs : ReconfigureWith(config)

\* Orchestrator.format(patterns) on the working tree: the orchestrator calls
\* findFiles(patterns, { onlyStaged: undefined }), so with no ignore option.
FormatGlob ==
  \E patterns \in PatternLists :
    StartCallOn(patterns, "format", "format", NoOp.only, DefaultOptions,
                DefaultOptions,
                {[threw |-> FALSE, files |-> FindFiles(patterns, <<>>, WorkingTree)]})

\* format calls that glob the working tree, under configurations with and
\* without an ignore list.
NextGlob ==
  \/ ReconfigureIgnore
  \/ FormatGlob
  \/ TaskSettles
  \/ Join
  \/ Return

SpecGlob == Init /\ [][NextGlob]_vars

(***************************************************************************)
(* FileMatcher.findFiles with onlyStaged (staged mode).                    *)
(***************************************************************************)
\* The tail of findFiles in staged mode: every staged file when no pattern
\* is given, else those some pattern matches.
FilterStaged(stagedFiles, patterns) ==
  LET kept == IF patterns = <<>>
                THEN stagedFiles
                ELSE SelectSeq(stagedFiles, LAMBDA e : MatchesAny(patterns, e))
  IN  [i \in 1..Len(kept) |-> kept[i].path]

\* Orchestrator.format / lint with staged: true, up to the staged-files query.
StagedCall(kind) ==
  \E patterns \in PatternLists :
    StartCallOn(patterns, kind, kind, NoOp.only,
                [DefaultOptions EXCEPT !.staged = "true"],
                [DefaultOptions EXCEPT !.staged = "true"], {})

FormatStaged == StagedCall("format")

LintStaged == StagedCall("lint")

\* The promise of the staged-files query is rejected: the catch block of
\* getStagedFiles returns [], findFiles returns the filtered list, and the
\* operation goes on with it.
StagedQueryRejected ==
  /\ pc = "discovering"
  /\ op.git = "threw"
  /\ Discover(op, currentConfig, adapters, fileHandlers, baseHandlers,
              {[threw |-> FALSE, files |-> FilterStaged(<<>>, op.patterns)]})
  /\ UNCHANGED <<currentConfig, regConfig, adapters, repeats>>

\* format and lint calls in staged mode.  No step resumes a call whose
\* staged-files query is pending.
NextStaged ==
  \/ FormatStaged
  \/ LintStaged
  \/ StagedQueryRejected
  \/ Return

\* Every continuation that is ready to run is run.
SpecStaged == Init /\ [][NextStaged]_vars /\ WF_vars(NextStaged)

(***************************************************************************)
(* BaseAdapter.executeCommand: the timer and the killed process.           *)
(***************************************************************************)
\* How a process that the timer sent SIGTERM can close: with code 0, or
\* with a code or signal that executeCommand reports as exit code 1, with
\* or without text on stderr.
LateCloseOutcomes == {"exit0", "exit1", "exit1_stderr"}

\* The 'close' event of a process killed by the timer: the handler calls
\* resolve a second time, on a promise the timer has settled.
LateClose ==
  /\ pc \in {"awaiting", "done"}
  /\ \E i \in 1..Len(tasks) :
       /\ tasks[i].killed
       /\ \E outcome \in LateCloseOutcomes :
            tasks' = [tasks EXCEPT
                        ![i].killed = FALSE,
                        ![i].result = Settle(tasks[i].result,
                                             AdapterInvoke(tasks[i].adapter, op.kind,
                                                           tasks[i].files, outcome))]
  /\ UNCHANGED <<configVars, pc, op, categorized, result, repeats>>

\* format calls with the close events of killed processes.
NextTimeout ==
  \/ Format
  \/ TaskSettles
  \/ LateClose
  \/ Join
  \/ Return

SpecTimeout == Init /\ [][NextTimeout]_vars

(***************************************************************************)
(* lint and check under every value of the fix option.                     *)
(***************************************************************************)
\* The caller's options with fix true, false or not given.
FixOptions == {[DefaultOptions EXCEPT !.fix = v] : v \in FlagValues}

\* Orchestrator.lint(patterns, options) with any fix option and no 'only'.
LintFix ==
  \E given \in FixOptions :
    StartCall("lint", "lint", NoOp.only, given, given, AnyDiscovery)

\* Orchestrator.check(patterns, options) with any fix option and no 'only'.
CheckFix == \E given \in FixOptions : CheckCall(NoOp.only, given)

NextCheck ==
  \/ LintFix
  \/ CheckFix
  \/ TaskSettles
  \/ Join
  \/ Return

SpecCheck == Init /\ [][NextCheck]_vars

(***************************************************************************)
(* format and lint under 'only' filters of file type names.                *)
(***************************************************************************)
\* 'only' filters of FileType names: one name, two names, one name twice.
TypeFilters ==
  {<<"json">>, <<"typescript", "json">>, <<"json", "typescript">>,
   <<"json", "json">>}

\* The 'only' option of a call: absent, or one of the filters.
FilterOptions ==
  {NoOp.only} \cup {[given |-> TRUE, types |-> types] : types \in TypeFilters}

\* Orchestrator.format / lint without and with an 'only' filter of file
\* type names.
StartOnly(kind) ==
  \E only \in FilterOptions :
    StartCall(kind, kind, only, DefaultOptions, DefaultOptions, AnyDiscovery)

FormatOnly == StartOnly("format")

LintOnly == StartOnly("lint")

NextOnly ==
  \/ FormatOnly
  \/ LintOnly
  \/ TaskSettles
  \/ Join
  \/ Return

SpecOnly == Init /\ [][NextOnly]_vars

(***************************************************************************)
(* format and lint step by step, with reconfigure calls while the          *)
(* operation is suspended at an await.                                     *)
(***************************************************************************)
\* The configurations the overlapping calls apply and the loader returns.
SnapshotConfigs ==
  {DEFAULT_CONFIG,
   [DEFAULT_CONFIG EXCEPT !["styles"] = "true", !["markdown"] = "false"],
   [DEFAULT_CONFIG EXCEPT !["json"] = "false"]}

SnapshotLoads ==
  {[ok |-> FALSE, config |-> NullConfig]}
    \cup {[ok |-> TRUE, config |-> c] : c \in SnapshotConfigs}

\* A mutation of format / lint that categorizes with the configuration it
\* read when the call was entered.
ConfigForCategorizeAtEntry(o, current) ==
  IF o.entryConfig = NullConfig THEN current ELSE o.entryConfig

\* this.currentConfig! in categorizeFiles(files, this.currentConfig!): read
\* after findFiles has returned.
ConfigForCategorize(o, current) == current

\* format / lint is entered and runs to its first await: loadConfig inside
\* initialize when there is no configuration, findFiles otherwise.
CallEnters(kind) ==
  /\ pc = "idle"
  /\ op' = [entryConfig |-> currentConfig]
             @@ [Operation(kind, kind, NoOp.only, DefaultOptions, DefaultOptions)
                   EXCEPT !.loaded = NeedsInitialize(currentConfig)]
  /\ pc' = IF NeedsInitialize(currentConfig) THEN "loading" ELSE "finding"
  /\ repeats' = 0
  /\ UNCHANGED <<configVars, categorized, tasks, result>>

FormatEnters == CallEnters("format")

LintEnters == CallEnters("lint")

\* loadConfig returns to initialize, and initialize to format / lint, which
\* returns the failure or goes on to findFiles.
LoadConfigReturns ==
  /\ pc = "loading"
  /\ \E load \in SnapshotLoads :
       /\ ApplyLoad(load)
       /\ pc' = IF load.ok THEN "finding" ELSE "done"
       /\ result' = IF load.ok THEN result ELSE Failure("CONFIG_INVALID")
  /\ UNCHANGED <<op, categorized, tasks, repeats>>

\* findFiles returns to format / lint, which categorizes the files, looks up
\* the adapters and starts the invocations before its next await.  The call
\* records the configuration it categorized with.
FindFilesReturns ==
  /\ pc = "finding"
  /\ Discover([snapshot |-> ConfigForCategorize(op, currentConfig)] @@ op,
              ConfigForCategorize(op, currentConfig), adapters, fileHandlers,
              baseHandlers, AnyDiscovery)
  /\ UNCHANGED <<currentConfig, regConfig, adapters, repeats>>

\* Orchestrator.reconfigure(config) called while the operation is suspended
\* in loadConfig, in findFiles or at Promise.all.
ReconfigureSuspended ==
  /\ pc \in {"loading", "finding", "awaiting"}
  /\ \E config \in SnapshotConfigs : ApplyConfig(config)
  /\ UNCHANGED <<opVars, repeats>>

NextSnapshot ==
  \/ FormatEnters
  \/ LintEnters
  \/ LoadConfigReturns
  \/ FindFilesReturns
  \/ ReconfigureSuspended
  \/ TaskSettles
  \/ Join
  \/ Return

SpecSnapshot == Init /\ [][NextSnapshot]_vars

(***************************************************************************)
(* FileMatcher used on its own: the cached extension map.                  *)
(***************************************************************************)
\* The configurations given to the matcher: every setting of the two flags
\* getFileHandlers reads.
MatcherConfigs ==
  {c \in Configs : c["typescript"] = "true" /\ c["json"] = "true"}

\* The configuration the matcher's map was last resolved from (none on a
\* new matcher), as the calls so far record it.
CachedConfig(o) == IF "cached" \in DOMAIN o THEN o.cached ELSE NullConfig

\* The method that last resolved the map.
CachedVia(o) == IF "via" \in DOMAIN o THEN o.via ELSE "constructor"

\* The record of one call on the matcher: the method, its arguments, the
\* value it returned, and the configuration the map is cached from.
MatcherCall(entry, config, files, types, returned, cached, via) ==
  [config |-> config, types |-> types, returned |-> returned,
   cached |-> cached, via |-> via]
    @@ [NoOp EXCEPT !.entry = entry, !.files = files]

\* FileMatcher.getFileType
GetFileType(handlers, file) ==
  LET hit == FirstMatch(handlers, ExtName(file))
  IN  IF hit = <<>> THEN "null" ELSE hit[1]

\* FileMatcher.filterByType
FilterByType(handlers, files, types) ==
  SelectSeq(files,
            LAMBDA f : \E k \in 1..Len(types) :
                         Contains(handlers[types[k]], ExtName(f)))

\* FileMatcher.updateHandlers(config)
MatcherUpdateHandlers ==
  \E config \in MatcherConfigs :
    LET r == GetFileHandlers(baseHandlers, config)
    IN  /\ fileHandlers' = r.handlers
        /\ baseHandlers' = r.base
        /\ op' = MatcherCall("updateHandlers", config, <<>>, <<>>, "void",
                             config, "updateHandlers")
        /\ categorized' = EmptyCategorized
        /\ UNCHANGED <<currentConfig, regConfig, adapters, pc, tasks, result, repeats>>

\* FileMatcher.categorizeFiles(files, config).  categorized holds the value
\* the call returns; the matcher keeps none of it.
MatcherCategorizeWith ==
  \E config \in MatcherConfigs, s \in FileLists :
    LET r == RecacheHandlers(baseHandlers, config)
    IN  /\ fileHandlers' = r.handlers
        /\ baseHandlers' = r.base
        /\ categorized' = CategorizeFiles(r.handlers, PathsOf(s))
        /\ op' = MatcherCall("categorizeFiles", config, PathsOf(s), <<>>,
                             "categorized", config, "categorizeFiles")
        /\ UNCHANGED <<currentConfig, regConfig, adapters, pc, tasks, result, repeats>>

\* FileMatcher.categorizeFiles(files)
MatcherCategorize ==
  \E s \in FileLists :
    /\ categorized' = CategorizeFiles(fileHandlers, PathsOf(s))
    /\ op' = MatcherCall("categorizeFiles", NullConfig, PathsOf(s), <<>>,
                         "categorized", CachedConfig(op), CachedVia(op))
    /\ UNCHANGED <<fileHandlers, baseHandlers>>
    /\ UNCHANGED <<currentConfig, regConfig, adapters, pc, tasks, result, repeats>>

\* FileMatcher.getFileType(filePath), filterByType(files, types) and
\* getActiveHandlers().
MatcherQuery ==
  /\ \/ \E k \in 1..Len(FileUniverse) :
          op' = MatcherCall("getFileType", NullConfig, <<FileUniverse[k]>>, <<>>,
                            GetFileType(fileHandlers, FileUniverse[k]),
                            CachedConfig(op), CachedVia(op))
     \/ \E types \in TypeFilters :
          op' = MatcherCall("filterByType", NullConfig, FileUniverse, types,
                            FilterByType(fileHandlers, FileUniverse, types),
                            CachedConfig(op), CachedVia(op))
     \/ op' = MatcherCall("getActiveHandlers", NullConfig, <<>>, <<>>,
                          fileHandlers, CachedConfig(op), CachedVia(op))
  /\ categorized' = EmptyCategorized
  /\ UNCHANGED <<fileHandlers, baseHandlers>>
  /\ UNCHANGED <<currentConfig, regConfig, adapters, pc, tasks, result, repeats>>

\* Calls on one FileMatcher, in any order.
NextMatcher ==
  \/ MatcherUpdateHandlers
  \/ MatcherCategorizeWith
  \/ MatcherCategorize
  \/ MatcherQuery

SpecMatcher == Init /\ [][NextMatcher]_vars

(***************************************************************************)
(* The command-line program: one process per subcommand.                   *)
(***************************************************************************)
\* The methods of class Orchestrator.
OrchestratorMethods ==
  {"initialize", "format", "lint", "check", "executeToolFormat",
   "executeToolLint", "getCurrentConfig", "getAdapterRegistry",
   "getFileMatcher", "reconfigure", "getSummary"}

\* The methods the program calls on the orchestrator while its module is
\* evaluated, before program.parse().
CalledAtLoad == {"registerAdapter"}

CliCommands == {"format", "lint", "check"}

\* What the commands of the tools do in the projects of the model.
CliOutcomes == {"exit0", "exit1_stderr"}

\* The projects a process is started in: what loadConfig returns there, the
\* files the pattern **/* finds, and what the command of the i-th adapter
\* invocation does.
CliProjects ==
  [load     : {[ok |-> FALSE, config |-> NullConfig],
               [ok |-> TRUE, config |-> DEFAULT_CONFIG],
               [ok |-> TRUE, config |-> [DEFAULT_CONFIG EXCEPT !["styles"] = "true"]]},
   files    : {PathsOf(s) : s \in FileLists},
   outcomes : [1..MaxFiles -> CliOutcomes]]

\* What orchestrator.format / lint / check(['**/*'], {}) returns on a fresh
\* orchestrator in the project.
OperationResult(cmd, project) ==
  LET kind    == IF cmd = "format" THEN "format" ELSE "lint"
      options == IF cmd = "check" THEN CheckOptions(DefaultOptions)
                                  ELSE DefaultOptions
      cfg     == project.load.config
      r       == GetFileHandlers(BASE_FILE_HANDLERS, cfg)
      cat     == CategorizeFiles(r.handlers, project.files)
      started == StartTasks(ConfigureAdapters(cfg), cat, NoOp.only, kind, options)
      settled == [i \in 1..Len(started) |->
                    [started[i] EXCEPT
                       !.status = "done",
                       !.outcome = project.outcomes[i],
                       !.result = ExecuteTool(started[i].adapter, kind,
                                              started[i].files,
                                              project.outcomes[i])]]
  IN  IF ~project.load.ok THEN Failure("CONFIG_INVALID")
      ELSE IF project.files = <<>> THEN NoFilesResult
      ELSE Aggregate(CollectedResults(settled))

\* The exit code of the process of one subcommand.  A call of a method the
\* orchestrator does not have throws a TypeError while the module is
\* evaluated, and the process ends with the code of an uncaught exception;
\* otherwise the action handler exits with 1 on a failure Result or an
\* aggregate without success and lets the process end with 0.
CliExitCode(cmd, project) ==
  IF ~(CalledAtLoad \subseteq OrchestratorMethods)
    THEN 1
    ELSE LET res == OperationResult(cmd, project)
         IN  IF res.kind = "failure" THEN 1
             ELSE IF res.success THEN 0
             ELSE 1

\* One run of the program, from its start to the exit of the process.  The
\* orchestrator of the process is gone with it.
CliProcess ==
  /\ pc = "idle"
  /\ \E cmd \in CliCommands, project \in CliProjects :
       op' = [cli |-> cmd, project |-> project,
              exit |-> CliExitCode(cmd, project)]
               @@ [NoOp EXCEPT !.entry = "cli"]
  /\ pc' = "done"
  /\ UNCHANGED <<configVars, categorized, tasks, result, repeats>>

NextCli ==
  \/ CliProcess
  \/ Return

SpecCli == Init /\ [][NextCli]_vars

(***************************************************************************)
(* Properties.                                                             *)
(***************************************************************************)
\* The elements of a sequence.
Range(s) == {s[i] : i \in 1..Len(s)}

\* No element occurs twice in the sequence.
NoDuplicates(s) == \A i, j \in 1..Len(s) : i # j => s[i] # s[j]

\* A format or lint operation is in progress or has returned.
IsRun == op.kind \in {"format", "lint"}

\* The operation discovered at least one file and categorized its files.
Categorized == IsRun /\ op.discovered /\ op.files # <<>> /\ pc \in {"awaiting", "done"}

\* task i is an invocation whose adapter threw.
Threw(i) == tasks[i].status = "done" /\ tasks[i].outcome = "throw"

\* task j is an invocation whose adapter returned a successful ToolResult.
ReturnedSuccess(j) ==
  /\ tasks[j].status = "done"
  /\ tasks[j].outcome # "throw"
  /\ tasks[j].result # NullResult
  /\ tasks[j].result.success

\* r is the failed ToolResult that stands for the throwing adapter a.
FailedResultNaming(r, a) ==
  /\ r.success = FALSE
  /\ r.tool = a
  /\ Len(r.errors) = 1
  /\ r.errors[1][1] = a

\* C1: fault isolation.  When one adapter throws and another returns a
\* successful ToolResult, the operation returns an aggregate that holds a
\* failed ToolResult for the thrower (one error string naming the adapter)
\* and the other adapter's successful result, with overall success false.
C1_FaultIsolation ==
  (pc = "done" /\ IsRun) =>
    \A i, j \in 1..Len(tasks) :
      (i # j /\ Threw(i) /\ ReturnedSuccess(j)) =>
        /\ result.kind = "aggregate"
        /\ result.success = FALSE
        /\ Len(result.results) = Len(tasks)
        /\ FailedResultNaming(result.results[i], tasks[i].adapter)
        /\ result.results[j] = tasks[j].result
        /\ result.results[j].success

C1_Witness ==
  /\ pc = "done"
  /\ op.kind = "format"
  /\ result.kind = "aggregate"
  /\ result.success = FALSE
  /\ \E i, j \in 1..Len(tasks) : i # j /\ Threw(i) /\ ReturnedSuccess(j)

\* C2: dispatch exactness.  With at least one discovered file, the types
\* whose adapter is invoked are exactly those with a registered adapter, at
\* least one categorized file and, when an 'only' filter is given, a mention
\* in the filter; each invocation gets its type's categorized file list and
\* that type's registered adapter.
C2_DispatchExactness ==
  Categorized =>
    /\ {tasks[i].type : i \in 1..Len(tasks)} =
         {t \in FileTypes :
            /\ adapters[t] # NoAdapter
            /\ categorized[t] # <<>>
            /\ (op.only.given => Contains(op.only.types, t))}
    /\ \A i \in 1..Len(tasks) :
         /\ tasks[i].files = categorized[tasks[i].type]
         /\ tasks[i].adapter = adapters[tasks[i].type]

C2_Witness ==
  /\ Categorized
  /\ op.only.given
  /\ Len(tasks) = 1
  /\ \E t \in FileTypes :
       /\ adapters[t] # NoAdapter
       /\ categorized[t] # <<>>
       /\ ~Contains(op.only.types, t)

\* C3: full fan-out / fan-in.  While the operation waits, every qualifying
\* invocation has been started; the aggregate exists only once every started
\* invocation has completed, and holds one result per invocation.
C3_FanOutFanIn ==
  /\ (pc = "awaiting") =>
       /\ result = NoResult
       /\ \A i \in 1..Len(tasks) : tasks[i].status \in {"running", "done"}
       /\ \A t \in FileTypes :
            (/\ adapters[t] # NoAdapter
             /\ categorized[t] # <<>>
             /\ (op.only.given => Contains(op.only.types, t)))
              => \E i \in 1..Len(tasks) : tasks[i].type = t
  /\ (pc = "done" /\ IsRun /\ result.kind = "aggregate") =>
       /\ \A i \in 1..Len(tasks) : tasks[i].status = "done"
       /\ Len(result.results) = Len(tasks)

C3_Witness ==
  /\ pc = "awaiting"
  /\ \E i, j \in 1..Len(tasks) :
       /\ tasks[i].status = "done"
       /\ tasks[i].result.success = FALSE
       /\ tasks[j].status = "running"

\* C4: reassigned files are still processed.  With styles (or markdown)
\* disabled and json enabled, every discovered styling (or prose) file is
\* handed to the json type's Prettier adapter and counted in that adapter's
\* filesProcessed, hence in totalFiles.
C4_ReassignedFilesProcessed ==
  (/\ pc = "done"
   /\ Categorized
   /\ result.kind = "aggregate"
   /\ ~op.only.given
   /\ currentConfig["json"] = "true") =>
    \A k \in 1..Len(op.files) :
      ((\/ /\ currentConfig["styles"] = "false"
           /\ Contains(BASE_FILE_HANDLERS["css"], ExtName(op.files[k]))
        \/ /\ currentConfig["markdown"] = "false"
           /\ Contains(BASE_FILE_HANDLERS["markdown"], ExtName(op.files[k]))) =>
         \E i \in 1..Len(tasks) :
           /\ tasks[i].adapter = "prettier"
           /\ Contains(tasks[i].files, op.files[k])
           /\ tasks[i].result.filesProcessed = Len(tasks[i].files)
           /\ result.totalFiles >= Len(tasks[i].files))

\* Every extension of a handler map, in type order.
AllExtensions(h) ==
  h["typescript"] \o h["json"] \o h["yaml"] \o h["css"] \o h["markdown"]

\* C5: partition invariant.  Whatever configuration was applied, the
\* matcher's handler map holds every extension of the base map exactly once
\* over all types, and the base map is unmodified.
C5_PartitionInvariant ==
  /\ NoDuplicates(AllExtensions(fileHandlers))
  /\ Range(AllExtensions(fileHandlers)) = Range(AllExtensions(BASE_FILE_HANDLERS))
  /\ baseHandlers = BASE_FILE_HANDLERS

C5_Witness ==
  /\ currentConfig # NullConfig
  /\ currentConfig["styles"] = "absent"
  /\ currentConfig["markdown"] = "false"
  /\ fileHandlers["css"] = <<>>
  /\ fileHandlers["markdown"] = <<>>
  /\ Len(fileHandlers["json"]) = 8

\* C6: reassignment and restoration.  With styles false the css entry is
\* empty and its four extensions are in the json entry (likewise markdown);
\* with a feature true its entry is the base entry again and none of its
\* extensions is left in json, so with both true the map is the base map,
\* whatever configurations were applied before.
C6_ReassignmentAndRestoration ==
  (currentConfig # NullConfig) =>
    /\ (currentConfig["styles"] = "false") =>
         /\ fileHandlers["css"] = <<>>
         /\ \A e \in Range(BASE_FILE_HANDLERS["css"]) : Contains(fileHandlers["json"], e)
    /\ (currentConfig["markdown"] = "false") =>
         /\ fileHandlers["markdown"] = <<>>
         /\ \A e \in Range(BASE_FILE_HANDLERS["markdown"]) :
              Contains(fileHandlers["json"], e)
    /\ (currentConfig["styles"] = "true") =>
         /\ fileHandlers["css"] = BASE_FILE_HANDLERS["css"]
         /\ \A e \in Range(BASE_FILE_HANDLERS["css"]) : ~Contains(fileHandlers["json"], e)
    /\ (currentConfig["markdown"] = "true") =>
         /\ fileHandlers["markdown"] = BASE_FILE_HANDLERS["markdown"]
         /\ \A e \in Range(BASE_FILE_HANDLERS["markdown"]) :
              ~Contains(fileHandlers["json"], e)
    /\ (currentConfig["styles"] = "true" /\ currentConfig["markdown"] = "true") =>
         fileHandlers = BASE_FILE_HANDLERS

C6_Witness ==
  /\ currentConfig # NullConfig
  /\ currentConfig["styles"] = "false"
  /\ currentConfig["markdown"] = "true"
  /\ fileHandlers["css"] = <<>>
  /\ fileHandlers["json"] = <<".json", ".css", ".scss", ".sass", ".less">>
  /\ fileHandlers["markdown"] = BASE_FILE_HANDLERS["markdown"]

\* The feature flag that governs each file type with one.
FlagOf(t) == IF t = "css" THEN "styles" ELSE t

\* A flag's value in a configuration, an absent flag taking its fixed default.
FlagEnabled(config, f) ==
  IF config[f] = "absent" THEN DEFAULT_CONFIG[f] = "true" ELSE config[f] = "true"

\* C7: adapter/flag coupling.  Once a configuration is applied, a type has
\* an adapter exactly when its feature flag is enabled in the most recently
\* applied configuration, which is also the one the registry records.
C7_AdapterFlagCoupling ==
  (currentConfig # NullConfig) =>
    /\ regConfig = currentConfig
    /\ \A t \in {"typescript", "json", "css", "markdown"} :
         (adapters[t] # NoAdapter) <=> FlagEnabled(currentConfig, FlagOf(t))

\* The number of times x occurs in s.
Occurrences(s, x) == Cardinality({i \in 1..Len(s) : s[i] = x})

\* The positions in the iteration order of the types whose current
\* extension list includes the file's extension.
MatchingPositions(file) ==
  {p \in 1..Len(FileTypeOrder) :
     Contains(fileHandlers[FileTypeOrder[p]], ExtName(file))}

\* C8: first-match classification.  Each input file is in at most one
\* type's list: once in the list of the first type, in the order typescript,
\* json, yaml, css, markdown, whose current extension list includes its
\* extension; a file no type includes is in no list, and is no error.
C8_FirstMatchClassification ==
  Categorized =>
    /\ \A k \in 1..Len(op.files) :
         LET f      == op.files[k]
             owners == {t \in FileTypes : Contains(categorized[t], f)}
             m      == MatchingPositions(f)
         IN  /\ Cardinality(owners) <= 1
             /\ (m = {}) => owners = {}
             /\ (m # {}) =>
                  \E p \in m :
                    /\ \A q \in m : p <= q
                    /\ owners = {FileTypeOrder[p]}
                    /\ Occurrences(categorized[FileTypeOrder[p]], f) = 1
    /\ \A t \in FileTypes : \A x \in Range(categorized[t]) : Contains(op.files, x)
    /\ (pc = "done") => result.kind = "aggregate"

C8_Witness ==
  /\ Categorized
  /\ currentConfig["styles"] = "false"
  /\ op.files = << <<"style", "css">>, <<"notes", "txt">> >>
  /\ categorized["json"] = << <<"style", "css">> >>
  /\ categorized["css"] = <<>>

\* C9: aggregation.  In every aggregate, totalFiles is the sum of
\* filesProcessed and totalErrors the sum of the errors lists' lengths over
\* the results of the invocations made, results holds one ToolResult per
\* invocation, and success holds exactly when every result succeeded.
C9_Aggregation ==
  (pc = "done" /\ IsRun /\ result.kind = "aggregate") =>
    /\ Len(result.results) = Len(tasks)
    /\ \A i \in 1..Len(tasks) : result.results[i] = tasks[i].result
    /\ result.totalFiles =
         SumSeq([i \in 1..Len(tasks) |-> tasks[i].result.filesProcessed])
    /\ result.totalErrors =
         SumSeq([i \in 1..Len(tasks) |-> Len(tasks[i].result.errors)])
    /\ result.success <=> (\A i \in 1..Len(tasks) : tasks[i].result.success)

C9_Witness ==
  /\ pc = "done"
  /\ op.kind = "lint"
  /\ result.kind = "aggregate"
  /\ Len(tasks) = 2
  /\ result.totalFiles = 2
  /\ result.totalErrors = 1
  /\ result.success = FALSE
  /\ \E i \in 1..Len(tasks) : tasks[i].result.success /\ tasks[i].result.errors = <<>>

\* C10: vacuous success.  An operation that ran discovery and invoked no
\* tool - no file was found, or no found file belongs to a type with a
\* registered adapter - returns the successful aggregate with no results and
\* zero totals.
C10_VacuousSuccess ==
  (pc = "done" /\ IsRun /\ op.discovered /\ tasks = <<>>) =>
    result = [kind |-> "aggregate", success |-> TRUE, results |-> <<>>,
              totalFiles |-> 0, totalErrors |-> 0]

C10_Witness ==
  /\ pc = "done"
  /\ op.kind = "format"
  /\ op.discovered
  /\ op.files # <<>>
  /\ ~op.only.given
  /\ tasks = <<>>
  /\ result.kind = "aggregate"
  /\ result.success

\* C11: registry / extension-map consistency.  In every state a caller can
\* observe between operations once a configuration is loaded, the registry's
\* recorded configuration is the orchestrator's current configuration, and
\* the registered adapters and the matcher's extension map are the ones
\* derived from that configuration.
C11_RegistryMapConsistency ==
  (currentConfig # NullConfig /\ pc \in {"idle", "done"}) =>
    /\ regConfig = currentConfig
    /\ adapters = ConfigureAdapters(currentConfig)
    /\ fileHandlers = GetFileHandlers(BASE_FILE_HANDLERS, currentConfig).handlers

C11_Witness ==
  /\ pc = "idle"
  /\ repeats = 1
  /\ currentConfig # NullConfig
  /\ currentConfig["styles"] = "true"
  /\ currentConfig["markdown"] = "false"
  /\ adapters["css"] = "stylelint"
  /\ adapters["markdown"] = NoAdapter
  /\ fileHandlers["markdown"] = <<>>

\* C12: idempotent reconfigure.  A reconfigure call that directly follows a
\* reconfigure call with the same configuration leaves the current
\* configuration, the registered adapters (types and names), the registry's
\* recorded configuration and the extension map as the first call left them.
C12_IdempotentReconfigure ==
  [][(repeats >= 1 /\ repeats' >= 2) =>
       /\ currentConfig' = currentConfig
       /\ regConfig' = regConfig
       /\ adapters' = adapters
       /\ fileHandlers' = fileHandlers]_vars

C12_Witness ==
  /\ repeats >= 2
  /\ pc = "idle"
  /\ currentConfig["styles"] = "false"
  /\ currentConfig["markdown"] = "false"
  /\ adapters["json"] = "prettier"
  /\ fileHandlers["json"] =
       <<".json", ".css", ".scss", ".sass", ".less", ".md", ".mdx", ".mdc">>

\* A step that enters format, lint or check.
EntersRun == pc = "idle" /\ pc' # "idle" /\ op'.kind \in {"format", "lint"}

\* C13: lazy initialization.  A format, lint or check call loads the
\* configuration itself exactly when the orchestrator has none; whenever
\* files have been categorized and adapters looked up, a configuration is
\* current and the registry and the extension map are configured from it; a
\* call that initialized lazily and returned an aggregate leaves a
\* configuration loaded; and a loaded configuration is never unloaded.
C13_LazyInitialization ==
  /\ [](Categorized =>
          /\ currentConfig # NullConfig
          /\ regConfig = currentConfig
          /\ adapters = ConfigureAdapters(currentConfig)
          /\ fileHandlers =
               GetFileHandlers(BASE_FILE_HANDLERS, currentConfig).handlers)
  /\ []((pc = "done" /\ IsRun /\ op.loaded /\ result.kind = "aggregate") =>
          currentConfig # NullConfig)
  /\ [][EntersRun => (op'.loaded <=> currentConfig = NullConfig)]_vars
  /\ [][(currentConfig # NullConfig) => (currentConfig' # NullConfig)]_vars

C13_Witness ==
  /\ pc = "awaiting"
  /\ op.entry = "lint"
  /\ op.loaded
  /\ currentConfig # NullConfig
  /\ Len(tasks) = 2
  /\ \E i \in 1..Len(tasks) : tasks[i].status = "done"

\* C14: an invalid configuration aborts initialization without side
\* effects.  A call that returns CONFIG_INVALID - initialize, or a format,
\* lint or check that initializes lazily - leaves the current configuration,
\* the registrations and the extension map exactly as they were (none on a
\* fresh orchestrator), ran no discovery and invoked no adapter.
C14_InvalidConfigAborts ==
  /\ []((result = Failure("CONFIG_INVALID")) =>
          /\ pc = "done"
          /\ op.loaded
          /\ ~op.discovered
          /\ tasks = <<>>
          /\ (currentConfig = NullConfig =>
                /\ \A t \in FileTypes : adapters[t] = NoAdapter
                /\ regConfig = NullConfig
                /\ fileHandlers = BASE_FILE_HANDLERS))
  /\ [][(result' = Failure("CONFIG_INVALID") /\ result # result') =>
          /\ currentConfig' = currentConfig
          /\ regConfig' = regConfig
          /\ adapters' = adapters
          /\ fileHandlers' = fileHandlers]_vars

C14_Witness ==
  /\ pc = "done"
  /\ op.entry = "format"
  /\ result = Failure("CONFIG_INVALID")
  /\ currentConfig = NullConfig
  /\ \A t \in FileTypes : adapters[t] = NoAdapter
  /\ tasks = <<>>

\* The candidates that exist in the directory of the initialize call.
ExistingCandidates ==
  {i \in 1..Len(ConfigPaths) : op.cwd[i].state # "missing"}

\* C15: configuration search order.  After initialize in a directory, the
\* outcome is decided by the first candidate, in the fixed order, that
\* exists: its merged configuration when it is valid, CONFIG_INVALID
\* otherwise, whatever the candidates after it are; the defaults are
\* returned exactly when no candidate exists.
C15_ConfigSearchOrder ==
  (pc = "done" /\ op.entry = "initialize") =>
    IF ExistingCandidates = {}
      THEN /\ result = [kind |-> "void"]
           /\ op.source = "defaults"
           /\ currentConfig = DEFAULT_CONFIG
      ELSE \E first \in ExistingCandidates :
             /\ \A i \in ExistingCandidates : first <= i
             /\ op.source = ConfigPaths[first]
             /\ IF op.cwd[first].state = "valid"
                  THEN /\ result = [kind |-> "void"]
                       /\ currentConfig = MergeWithDefaults(op.cwd[first].config)
                  ELSE result = Failure("CONFIG_INVALID")

\* The file type a feature flag governs.
TypeOf(f) == IF f = "styles" THEN "css" ELSE f

\* C16: fixed defaults for absent flags.  For every applied configuration,
\* a flag the configuration leaves out counts as its fixed default
\* (typescript, json, markdown enabled; styles disabled) for the registry
\* (an adapter is registered exactly when the default is enabled), for the
\* category resolver (the extensions of styles and markdown stay in their
\* own category exactly when the default is enabled) and for
\* isFeatureEnabled.
C16_FixedDefaultsForAbsentFlags ==
  (currentConfig # NullConfig) =>
    \A f \in Features :
      (currentConfig[f] = "absent") =>
        /\ (adapters[TypeOf(f)] # NoAdapter) <=> (DEFAULT_CONFIG[f] = "true")
        /\ (f \in {"styles", "markdown"}) =>
             ((fileHandlers[TypeOf(f)] = BASE_FILE_HANDLERS[TypeOf(f)])
                <=> (DEFAULT_CONFIG[f] = "true"))
        /\ IsFeatureEnabled(currentConfig, f) <=> (DEFAULT_CONFIG[f] = "true")

\* The ignore patterns of a configuration.
ConfigIgnore(config) ==
  IF "ignore" \in DOMAIN config THEN config["ignore"] ELSE <<>>

\* The file of the working tree with the given path.
EntryOf(path) == CHOOSE e \in Range(WorkingTree) : e.path = path

\* The number of (task, position) places at which the path was handed over.
TimesHandedOver(path) ==
  SumSeq([i \in 1..Len(tasks) |-> Occurrences(tasks[i].files, path)])

\* C17: ignore list and de-duplication.  In a format that globs the working
\* tree, no file handed to an adapter matches a pattern of the default
\* ignore list or an ignore pattern of the current configuration, and a
\* file is discovered, and handed to an adapter, at most once.
C17_IgnoreAndDedup ==
  (Categorized /\ "patterns" \in DOMAIN op) =>
    /\ NoDuplicates(op.files)
    /\ \A i \in 1..Len(tasks) : \A k \in 1..Len(tasks[i].files) :
         /\ ~MatchesAny(DefaultIgnore, EntryOf(tasks[i].files[k]))
         /\ ~MatchesAny(ConfigIgnore(currentConfig), EntryOf(tasks[i].files[k]))
         /\ TimesHandedOver(tasks[i].files[k]) = 1

\* C18: staged-file discovery is advisory.  A format or lint call with
\* staged = true that has reached the staged-files query always goes on to
\* return a result.
C18_StagedDiscoveryCompletes == (pc = "discovering") ~> (pc = "done")

\* task i is an invocation whose command ran past its timeout.
TimedOut(i) == tasks[i].status = "done" /\ tasks[i].outcome = "timeout"

\* r is the failed ToolResult of adapter a that carries the timeout error.
TimeoutResult(r, a) ==
  /\ r.success = FALSE
  /\ r.tool = a
  /\ r.exitCode = 1
  /\ r.errors = << <<"Command timed out after ", "30000", "ms">> >>

\* C19: independent timeouts.  An invocation whose command ran past its
\* timeout has the failed ToolResult with the timeout error, before and
\* after the killed process closes; every other invocation of the operation
\* is still running or has the result of its own outcome; and the operation
\* returns an aggregate with success false that holds each invocation's
\* result.
C19_IndependentTimeouts ==
  \A i \in 1..Len(tasks) :
    TimedOut(i) =>
      /\ TimeoutResult(tasks[i].result, tasks[i].adapter)
      /\ \A j \in 1..Len(tasks) :
           (j # i) =>
             \/ tasks[j].status = "running" /\ tasks[j].result = Pending
             \/ /\ tasks[j].status = "done"
                /\ tasks[j].result =
                     ExecuteTool(tasks[j].adapter, op.kind, tasks[j].files,
                                 tasks[j].outcome)
      /\ (pc = "done") =>
           /\ result.kind = "aggregate"
           /\ result.success = FALSE
           /\ Len(result.results) = Len(tasks)
           /\ TimeoutResult(result.results[i], tasks[i].adapter)
           /\ \A j \in 1..Len(tasks) : result.results[j] = tasks[j].result

C19_Witness ==
  /\ pc = "done"
  /\ result.kind = "aggregate"
  /\ result.success = FALSE
  /\ \E i, j \in 1..Len(tasks) :
       /\ i # j
       /\ TimedOut(i)
       /\ ~tasks[i].killed
       /\ tasks[j].outcome = "exit0"
       /\ tasks[j].result.success

\* The invocations lint starts for the caller's options with fix false, on
\* the categorized files and registry of the call in progress.
LintTasksWithoutFix ==
  StartTasks(adapters, categorized, op.only, "lint",
             [op.given EXCEPT !.fix = "false"])

C21_UnexpectedErrorsWrapped ==
  (pc = "done" /\ IsRun) =>
    /\ result.kind \in {"aggregate", "failure"}
    /\ op.threw <=> result = [kind |-> "failure", code |-> "INTERNAL_ERROR"]
    /\ op.threw => (tasks = <<>> /\ currentConfig # NullConfig)
    /\ (result.kind = "failure" /\ ~op.threw) =>
         (result.code = "CONFIG_INVALID" /\ op.loaded)
    /\ (\E i \in 1..Len(tasks) : tasks[i].result.success = FALSE) =>
         (result.kind = "aggregate" /\ result.success = FALSE)

C21_Witness ==
  /\ pc = "done"
  /\ op.entry = "check"
  /\ op.threw
  /\ ~op.loaded
  /\ result.kind = "failure"
  /\ result.code = "INTERNAL_ERROR"

\* C22: exit code of the command-line program.  A process of the format,
\* lint or check subcommand exits with code 0 exactly when the operation of
\* the subcommand returns, in the project of the process, an aggregate whose
\* success flag is true.
C22_CliExitCode ==
  (pc = "done" /\ op.entry = "cli") =>
    LET res == OperationResult(op.cli, op.project)
    IN  (op.exit = 0) <=> (res.kind = "aggregate" /\ res.success)

\* The file type each name of the CLI help (ts, json, css, md) stands for.
AdvertisedType(name) ==
  CASE name = "ts"   -> "typescript"
    [] name = "json" -> "json"
    [] name = "css"  -> "css"
    [] name = "md"   -> "markdown"

\* C23: the 'only' filter accepts the advertised names.  When an operation
\* is given an 'only' filter of advertised names and has categorized its
\* files, every named type that has a registered adapter and at least one
\* discovered file gets an invocation of that adapter on those files, and
\* no other type gets one.
C23_OnlyAcceptsAdvertisedNames ==
  (Categorized /\ op.only.given) =>
    /\ \A k \in 1..Len(op.only.types) :
         LET t == AdvertisedType(op.only.types[k])
         IN  (adapters[t] # NoAdapter /\ categorized[t] # <<>>) =>
               \E i \in 1..Len(tasks) :
                 /\ tasks[i].type = t
                 /\ tasks[i].adapter = adapters[t]
                 /\ tasks[i].files = categorized[t]
    /\ \A i \in 1..Len(tasks) :
         \E k \in 1..Len(op.only.types) :
           tasks[i].type = AdvertisedType(op.only.types[k])

\* C24: YAML is handled by Prettier.  With the json feature enabled and no
\* 'only' filter, every discovered .yaml or .yml file is in the file list of
\* an invocation of the Prettier adapter, and once that invocation has
\* completed its filesProcessed counts the file.
C24_YamlHandledByPrettier ==
  (Categorized /\ ~op.only.given /\ currentConfig["json"] = "true") =>
    \A k \in 1..Len(op.files) :
      (ExtName(op.files[k]) \in {".yaml", ".yml"}) =>
        \E i \in 1..Len(tasks) :
          /\ tasks[i].adapter = "prettier"
          /\ Contains(tasks[i].files, op.files[k])
          /\ (tasks[i].status = "done") => tasks[i].result.filesProcessed >= 1

\* C25: one invocation per category per operation.  Whatever the 'only'
\* filter, no two invocations of an operation are for the same file type,
\* the aggregate holds at most one Tool Result per file type, and
\* totalFiles counts no discovered file twice.
C25_OneInvocationPerCategory ==
  Categorized =>
    /\ \A i, j \in 1..Len(tasks) : (i # j) => tasks[i].type # tasks[j].type
    /\ (pc = "done" /\ result.kind = "aggregate") =>
         /\ Len(result.results) <= Cardinality({tasks[i].type : i \in 1..Len(tasks)})
         /\ result.totalFiles <= Len(op.files)

\* The file types in the order the operation walks them: the filter's
\* order, or the key order of the categorized object.
IterationOrder ==
  IF op.only.given
    THEN op.only.types
    ELSE <<"typescript", "json", "yaml", "css", "markdown">>

\* The types of the order above that have an adapter and a file.
ExpectedTypes ==
  SelectSeq(IterationOrder,
            LAMBDA t : adapters[t] # NoAdapter /\ categorized[t] # <<>>)

\* C27: deterministic result order.  The invocations of an operation are in
\* the category iteration order (typescript, json, yaml, css, markdown) or,
\* with an 'only' filter, in the order of the filter; the results list of
\* the aggregate holds the invocations' results in that order, whatever
\* the order in which the invocations completed.
C27_DeterministicResultOrder ==
  Categorized =>
    /\ Len(tasks) = Len(ExpectedTypes)
    /\ \A i \in 1..Len(tasks) : tasks[i].type = ExpectedTypes[i]
    /\ (pc = "done") =>
         /\ result.kind = "aggregate"
         /\ Len(result.results) = Len(tasks)
         /\ \A i \in 1..Len(tasks) :
              /\ result.results[i] = tasks[i].result
              /\ result.results[i].tool = adapters[ExpectedTypes[i]]

C27_Witness ==
  /\ pc = "done"
  /\ op.only.given
  /\ op.only.types = <<"json", "typescript">>
  /\ result.kind = "aggregate"
  /\ Len(result.results) = 2
  /\ result.results[1].tool = "prettier"
  /\ result.results[2].tool = "ultracite"
  /\ result.results[1].success = FALSE
  /\ result.results[2].success

\* C28: single configuration snapshot per run.  Also when reconfigure is
\* called while the operation is suspended, the operation's categorized
\* files are those of the extension map of one configuration, and its
\* invocations are exactly those the adapter registrations of the same
\* configuration give for these files.
C28_SingleConfigSnapshot ==
  (Categorized /\ "snapshot" \in DOMAIN op) =>
    /\ op.snapshot # NullConfig
    /\ categorized =
         CategorizeLoop(GetFileHandlers(BASE_FILE_HANDLERS, op.snapshot).handlers,
                        op.files)
    /\ Len(tasks) =
         Len(SelectSeq(FileTypeOrder,
                       LAMBDA t : /\ ConfigureAdapters(op.snapshot)[t] # NoAdapter
                                  /\ categorized[t] # <<>>))
    /\ \A i \in 1..Len(tasks) :
         /\ tasks[i].adapter = ConfigureAdapters(op.snapshot)[tasks[i].type]
         /\ tasks[i].files = categorized[tasks[i].type]

C28_Witness ==
  /\ pc = "awaiting"
  /\ "snapshot" \in DOMAIN op
  /\ op.entryConfig # NullConfig
  /\ op.snapshot # op.entryConfig
  /\ currentConfig # op.snapshot
  /\ adapters # ConfigureAdapters(op.snapshot)
  /\ Len(tasks) = 2
  /\ \E i \in 1..Len(tasks) : tasks[i].status = "done"

\* C29, as stated: success implies no reported errors.  In every aggregate
\* with success true, totalErrors is 0 and no Tool Result carries an error.
C29_SuccessImpliesNoErrors ==
  (pc = "done" /\ IsRun /\ result.kind = "aggregate" /\ result.success) =>
    /\ result.totalErrors = 0
    /\ \A i \in 1..Len(result.results) : result.results[i].errors = <<>>

\* r is a Stylelint format result for exit code 2, which the adapter counts
\* as a partial success.
PartialSuccess(r) == r.tool = "stylelint" /\ r.exitCode = 2 /\ op.kind = "format"

\* C29, amended: a Tool Result that is marked successful and carries errors
\* is a Stylelint format result for exit code 2; in an aggregate with
\* success true, totalErrors counts the error strings of those results and
\* nothing else, so it is 0 when there is none.
C29_SuccessErrorsOnlyPartial ==
  (pc = "done" /\ IsRun /\ result.kind = "aggregate") =>
    /\ \A i \in 1..Len(result.results) :
         (result.results[i].success /\ result.results[i].errors # <<>>) =>
           PartialSuccess(result.results[i])
    /\ result.success =>
         result.totalErrors =
           SumSeq([i \in 1..Len(result.results) |->
                     IF PartialSuccess(result.results[i])
                       THEN Len(result.results[i].errors) ELSE 0])

C29_Witness ==
  /\ pc = "done"
  /\ op.kind = "format"
  /\ result.kind = "aggregate"
  /\ result.success
  /\ result.totalErrors = 1
  /\ Len(result.results) = 2
  /\ \E i \in 1..Len(result.results) :
       /\ result.results[i].tool = "stylelint"
       /\ result.results[i].exitCode = 2
       /\ result.results[i].success

\* The extension map of the configuration the matcher's calls recorded.
CachedMap ==
  IF CachedConfig(op) = NullConfig
    THEN BASE_FILE_HANDLERS
    ELSE GetFileHandlers(BASE_FILE_HANDLERS, CachedConfig(op)).handlers

\* C30: categorizeFiles with a configuration re-caches the extension map.
\* After categorizeFiles(files, config) the matcher's map is
\* getFileHandlers(config) and the files are classified against it; every
\* later categorizeFiles(files), getFileType, filterByType and
\* getActiveHandlers answers from the map of the configuration last given
\* to updateHandlers or to categorizeFiles; and categorizeFiles without a
\* configuration leaves the map as it is.
C30_CategorizeRecachesMap ==
  /\ []((op.entry \in {"updateHandlers", "categorizeFiles", "getFileType",
                        "filterByType", "getActiveHandlers"}) =>
          /\ fileHandlers = CachedMap
          /\ (op.entry \in {"updateHandlers", "categorizeFiles"}
                /\ op.config # NullConfig) => op.cached = op.config
          /\ (op.entry = "categorizeFiles") =>
               categorized = CategorizeLoop(CachedMap, op.files)
          /\ (op.entry = "getFileType") =>
               LET m == MatchingTypes(CachedMap, ExtName(op.files[1]))
               IN  op.returned = IF m = <<>> THEN "null" ELSE Head(m)
          /\ (op.entry = "filterByType") =>
               op.returned =
                 SelectSeq(op.files,
                           LAMBDA f : \E t \in Range(op.types) :
                                        Contains(CachedMap[t], ExtName(f)))
          /\ (op.entry = "getActiveHandlers") => op.returned = CachedMap)
  /\ [][(op'.entry = "categorizeFiles" /\ op'.config = NullConfig) =>
          /\ fileHandlers' = fileHandlers
          /\ op'.cached = CachedConfig(op)]_vars

C30_Witness ==
  /\ op.entry = "getFileType"
  /\ op.via = "categorizeFiles"
  /\ op.cached["styles"] = "false"
  /\ op.cached["markdown"] = "true"
  /\ op.files = << <<"style", "css">> >>
  /\ op.returned = "json"
  /\ fileHandlers["css"] = <<>>

\* A step of a format, lint or check call: its entry, or a step while it
\* is in progress.
RunStep == EntersRun \/ (IsRun /\ pc # "idle")

\* C26: format and lint are read-only on shared state.  On an orchestrator
\* that has a configuration, no step of a format, lint or check call
\* changes the current configuration, the registry's configuration, the
\* registered adapters, the extension map or the base map, whatever files
\* are discovered and whatever the adapters return or throw.
C26_OperationsReadOnly ==
  [][(currentConfig # NullConfig /\ RunStep) =>
       /\ currentConfig' = currentConfig
       /\ regConfig' = regConfig
       /\ adapters' = adapters
       /\ fileHandlers' = fileHandlers
       /\ baseHandlers' = baseHandlers]_vars

C26_Witness ==
  /\ pc = "done"
  /\ op.kind = "format"
  /\ ~op.loaded
  /\ result.kind = "aggregate"
  /\ currentConfig["styles"] = "false"
  /\ fileHandlers["css"] = <<>>
  /\ adapters["css"] = NoAdapter
  /\ \E i \in 1..Len(tasks) : Threw(i)
====
